---- MODULE Spec2Model ----
(***************************************************************************)
(* The stdio JSON-RPC message loop of rs_filesystem (src/src/main.rs):     *)
(* the line reader, the input log, the notification / request classifier,  *)
(* the tools/call rewrite, the router call, the response envelopes, and    *)
(* the signal task racing the loop in main's select.                       *)
(*                                                                         *)
(* A stdin line is modelled by its content: empty text, text that is not   *)
(* JSON, or the JSON value it spells.  JSON values are tagged records.     *)
(* JSON null is left out of the params universe: how the router crate's    *)
(* Request::from_value treats "params": null is not visible in src/.       *)
(***************************************************************************)
EXTENDS Integers, Sequences, FiniteSets, TLC

\* Number of stdin lines a run reads before the stream ends.
MaxLines == 2

----------------------------------------------------------------------------
(* JSON values and stdin lines *)

Ids == {1, 2}

None == [t |-> "absent"]

\* an arguments object that is neither a tool call nor a cancellation
ArgsA == [t |-> "object", keys |-> {"path"}]

ToolCallParams(n, a) ==
    IF a = None
    THEN [t |-> "object", keys |-> {"name"}, name |-> n]
    ELSE [t |-> "object", keys |-> {"name", "arguments"}, name |-> n, arguments |-> a]

CancelParams(r) == [t |-> "object", keys |-> {"requestId"}, requestId |-> r]

JString(s) == [t |-> "string", s |-> s]
JNumber == [t |-> "number"]
JArray == [t |-> "array"]

\* a JSON object with optional id, method and params members
Obj(i, m, p) ==
    [t |-> "object",
     keys |-> (IF i = None THEN {} ELSE {"id"}) \cup
              (IF m = None THEN {} ELSE {"method"}) \cup
              (IF p = None THEN {} ELSE {"params"}),
     id |-> i, method |-> m, params |-> p]

JId(n) == [t |-> "number", n |-> n]

EmptyLine == [form |-> "empty"]
NotJson == [form |-> "notjson"]
JsonLine(v) == [form |-> "json", value |-> v]

RequestLine(i, m, p) == JsonLine(Obj(JId(i), JString(m), p))
ToolCallLine(i, n, a) == RequestLine(i, "tools/call", ToolCallParams(n, a))

NotificationLines ==
    { JsonLine(Obj(None, JString("notifications/initialized"), None)),
      JsonLine(Obj(None, JString("notifications/cancelled"), CancelParams(1))),
      JsonLine(Obj(None, JString("notifications/cancelled"), None)),
      JsonLine(Obj(None, JString("notifications/cancelled"), ArgsA)),
      JsonLine(Obj(None, JString("ping"), None)),
      JsonLine(Obj(None, None, None)) }

MalformedLines ==
    { EmptyLine, NotJson, JsonLine(JArray),
      JsonLine(Obj(JId(1), None, None)),
      JsonLine(Obj(JId(2), JNumber, ArgsA)) }

DirectLines ==
    { RequestLine(1, "ping", None),
      RequestLine(2, "ping", None),
      RequestLine(1, "toolX", ArgsA),
      RequestLine(2, "nosuch", None),
      RequestLine(1, "tools/call", None),
      RequestLine(2, "tools/call", ArgsA) }

ToolCallLines ==
    { ToolCallLine(2, "toolX", ArgsA),
      ToolCallLine(1, "toolX", None),
      ToolCallLine(1, "nosuch", ArgsA),
      ToolCallLine(1, "tools/call", ArgsA),
      ToolCallLine(2, "tools/call", ToolCallParams("toolX", ArgsA)) }

Lines == MalformedLines \cup NotificationLines \cup DirectLines \cup ToolCallLines

----------------------------------------------------------------------------
VARIABLES
    input,      \* the lines read from stdin so far
    pc,         \* position of the message task spawned at main.rs:125
    line,       \* the line being processed
    log,        \* records appended to logging_file
    stdout,     \* lines printed to stdout
    id,         \* the id captured at main.rs:146
    request,    \* rpc_request handed to router.call
    result,     \* what router.call returned
    response,   \* the serialized response about to be written
    calls,      \* requests the router was asked to look up
    returns,    \* what each router call came back with
    notifs,     \* notification handlers invoked
    sig,        \* position of the signal task spawned at main.rs:84
    cleaned,    \* graceful_shutdown has run
    proc        \* the process: running, or exited with a status

vars == <<input, pc, line, log, stdout, id, request, result, response,
          calls, returns, notifs, sig, cleaned, proc>>

NoLine == [form |-> "none"]
NoRequest == [id |-> None, method |-> "", params |-> None]
NoResult == [t |-> "none"]
NoResponse == [t |-> "none"]

Running == [st |-> "running"]
Exited(code, by) == [st |-> "exited", code |-> code, by |-> by]

Init ==
    /\ input = <<>>
    /\ pc = "read"
    /\ line = NoLine
    /\ log = <<>>
    /\ stdout = <<>>
    /\ id = None
    /\ request = NoRequest
    /\ result = NoResult
    /\ response = NoResponse
    /\ calls = <<>>
    /\ returns = <<>>
    /\ notifs = <<>>
    /\ sig = "listening"
    /\ cleaned = FALSE
    /\ proc = Running

----------------------------------------------------------------------------
(* The pure steps of the loop body *)

\* serde_json::from_str::<Value>(&line)
Parse(l) ==
    IF l.form = "json" THEN [ok |-> TRUE, value |-> l.value] ELSE [ok |-> FALSE]

\* json_value.is_object() && json_value.get("id").is_none()
IsNotification(v) == v.t = "object" /\ "id" \notin v.keys

\* Request::from_value defaulting a missing or non-string method to ""
RequestFromValueLax(v) ==
    IF v.t = "object" /\ "id" \in v.keys
    THEN [ok |-> TRUE,
          request |-> [id |-> v.id,
                       method |-> IF "method" \in v.keys /\ v.method.t = "string"
                                  THEN v.method.s ELSE "",
                       params |-> IF "params" \in v.keys THEN v.params ELSE None]]
    ELSE [ok |-> FALSE]

\* Request::from_value: an object with an id and a string method
RequestFromValue(v) ==
    IF /\ v.t = "object"
       /\ "id" \in v.keys
       /\ "method" \in v.keys
       /\ v.method.t = "string"
    THEN [ok |-> TRUE,
          request |-> [id |-> v.id, method |-> v.method.s,
                       params |-> IF "params" \in v.keys THEN v.params ELSE None]]
    ELSE [ok |-> FALSE]

\* serde_json::from_value::<ToolCallRequestParams>: {name: string, arguments: optional}
ToolCallDecodes(p) == p.t = "object" /\ "name" \in p.keys
ToolCallArguments(p) == IF "arguments" \in p.keys THEN p.arguments ELSE None

\* serde_json::from_value::<CancelledNotification>: {requestId, reason: optional}
CancelledDecodes(p) == p.t = "object" /\ "requestId" \in p.keys

\* the notification branch unwrapping params before it looks at the method
NotificationOutcomeEagerParams(v) ==
    IF "method" \notin v.keys THEN [next |-> "read", handler |-> "none"]
    ELSE IF "params" \notin v.keys THEN [next |-> "panicked", handler |-> "none"]
    ELSE IF v.method = JString("notifications/initialized")
         THEN [next |-> "read", handler |-> "notifications_initialized"]
    ELSE IF v.method = JString("notifications/cancelled")
         THEN IF CancelledDecodes(v.params)
              THEN [next |-> "read", handler |-> "notifications_cancelled"]
              ELSE [next |-> "panicked", handler |-> "none"]
    ELSE [next |-> "read", handler |-> "none"]

\* the notification branch giving up on the loop when a cancellation arrives
NotificationOutcomeCancelAborts(v) ==
    IF "method" \notin v.keys THEN [next |-> "read", handler |-> "none"]
    ELSE IF v.method = JString("notifications/initialized")
         THEN [next |-> "read", handler |-> "notifications_initialized"]
    ELSE IF v.method = JString("notifications/cancelled")
         THEN [next |-> "panicked", handler |-> "none"]
    ELSE [next |-> "read", handler |-> "none"]

\* the notification branch: which handler runs, or the unwrap that panics
NotificationOutcome(v) ==
    IF "method" \notin v.keys THEN [next |-> "read", handler |-> "none"]
    ELSE IF v.method = JString("notifications/initialized")
         THEN [next |-> "read", handler |-> "notifications_initialized"]
    ELSE IF v.method = JString("notifications/cancelled")
         THEN IF "params" \in v.keys /\ CancelledDecodes(v.params)
              THEN [next |-> "read", handler |-> "notifications_cancelled"]
              ELSE [next |-> "panicked", handler |-> "none"]
    ELSE [next |-> "read", handler |-> "none"]

\* let id = rpc_request.id.clone()
CaptureId(req) == req.id

\* the rewrite passing the whole params object on instead of its arguments
RewriteKeepParams(req, i) ==
    IF req.method = "tools/call"
    THEN IF req.params # None /\ ToolCallDecodes(req.params)
         THEN [ok |-> TRUE,
               request |-> [id |-> i, method |-> req.params.name,
                            params |-> req.params]]
         ELSE [ok |-> FALSE]
    ELSE [ok |-> TRUE, request |-> req]

\* the params decoded and checked but the request handed on as it came
RewriteSkipped(req, i) ==
    IF req.method = "tools/call"
    THEN IF req.params # None /\ ToolCallDecodes(req.params)
         THEN [ok |-> TRUE, request |-> req]
         ELSE [ok |-> FALSE]
    ELSE [ok |-> TRUE, request |-> req]

\* the rewrite letting a request through unchanged when its params do not decode
RewriteLenient(req, i) ==
    IF req.method = "tools/call" /\ req.params # None /\ ToolCallDecodes(req.params)
    THEN [ok |-> TRUE,
          request |-> [id |-> i, method |-> req.params.name,
                       params |-> ToolCallArguments(req.params)]]
    ELSE [ok |-> TRUE, request |-> req]

\* the tools/call rewrite: the effective request, or the unwrap that panics
Rewrite(req, i) ==
    IF req.method = "tools/call"
    THEN IF req.params # None /\ ToolCallDecodes(req.params)
         THEN [ok |-> TRUE,
               request |-> [id |-> i, method |-> req.params.name,
                            params |-> ToolCallArguments(req.params)]]
         ELSE [ok |-> FALSE]
    ELSE [ok |-> TRUE, request |-> req]

\* everything between the input log write and router.call
Classify(l) ==
    IF l.form = "empty" THEN [next |-> "read", handler |-> "none"]
    ELSE IF ~Parse(l).ok THEN [next |-> "read", handler |-> "none"]
    ELSE IF IsNotification(Parse(l).value) THEN NotificationOutcome(Parse(l).value)
    ELSE IF ~RequestFromValue(Parse(l).value).ok THEN [next |-> "read", handler |-> "none"]
    ELSE LET req == RequestFromValue(Parse(l).value).request
             i == CaptureId(req)
             rw == Rewrite(req, i)
         IN  IF rw.ok
             THEN [next |-> "call", handler |-> "none", id |-> i, request |-> rw.request]
             ELSE [next |-> "panicked", handler |-> "none"]

----------------------------------------------------------------------------
(* The router and the response envelopes *)

\* the methods build_rpc_router registers; toolX stands for a registered tool
Registry == {"initialize", "ping", "toolX"}

JNull == [t |-> "null"]
ValueA == [t |-> "object", keys |-> {}]
ErrorE == [t |-> "object", keys |-> {"code", "message"}, code |-> -32602]

Ok(v) == [t |-> "ok", value |-> v]
Err(e) == [t |-> "err", error |-> e]
HandlerError(isValue, v) == [kind |-> "Handler", isValue |-> isValue, value |-> v]
RouterError(k) == [kind |-> k]

\* what a registered handler can come back with
HandlerResults ==
    { Ok(JNull), Ok(ValueA),
      Err(HandlerError(TRUE, ErrorE)),
      Err(HandlerError(FALSE, JNull)),
      Err(RouterError("ParamsParsing")) }

\* error.error.to_string()
ErrorToString(e) == e.kind

GenericCode == -1

\* JsonRpcResponse::new(id, value)
JsonRpcResponse(i, v) == [jsonrpc |-> "2.0", id |-> i, result |-> v]

\* JsonRpcError::new(id, code, message)
JsonRpcError(i, code, message) ==
    [jsonrpc |-> "2.0", id |-> i, error |-> [code |-> code, message |-> message]]

\* json!({"jsonrpc": "2.0", "error": error_value, "id": id})
HandlerErrorJson(i, e) == [jsonrpc |-> "2.0", id |-> i, error |-> e]

\* the Ok arm without the null check
OkResponseAlways(i, v) == JsonRpcResponse(i, v)

\* the Ok arm: a null value suppresses the response
OkResponse(i, v) == IF v # JNull THEN JsonRpcResponse(i, v) ELSE NoResponse

\* the catch-all arm with the error's description left out of the message
GenericArmNoDescription(i, e) ==
    JsonRpcError(i, GenericCode, <<"Invalid json-rpc call, error: ">>)

\* the catch-all arm
GenericArm(i, e) ==
    JsonRpcError(i, GenericCode, <<"Invalid json-rpc call, error: ", ErrorToString(e)>>)

\* the Error::Handler arm sending the payload inside the generic envelope
HandlerArmWrapped(i, h) == IF h.isValue THEN GenericArm(i, h) ELSE NoResponse

\* the Error::Handler arm: only a payload that is a JSON value is sent
HandlerArm(i, h) == IF h.isValue THEN HandlerErrorJson(i, h.value) ELSE NoResponse

\* match router.call(rpc_request).await
MatchResult(i, r) ==
    IF r.t = "ok" THEN OkResponse(i, r.value)
    ELSE IF r.error.kind = "Handler" THEN HandlerArm(i, r.error)
    ELSE GenericArm(i, r.error)

----------------------------------------------------------------------------
(* The message task: while let Ok(Some(line)) = reader.next_line().await *)

At == Len(input)

\* the next line read while the handler of the previous one is still in flight
ReadLineWhileInFlight ==
    /\ proc = Running /\ pc \in {"read", "await"}
    /\ Len(input) < MaxLines
    /\ \E l \in Lines :
         /\ input' = Append(input, l)
         /\ line' = l
    /\ pc' = "log_in"
    /\ UNCHANGED <<log, stdout, id, request, result, response, calls, returns, notifs,
                   sig, cleaned, proc>>

\* next_line() yields a line
ReadLine ==
    /\ proc = Running /\ pc = "read"
    /\ Len(input) < MaxLines
    /\ \E l \in Lines :
         /\ input' = Append(input, l)
         /\ line' = l
    /\ pc' = "log_in"
    /\ UNCHANGED <<log, stdout, id, request, result, response, calls, returns, notifs,
                   sig, cleaned, proc>>

\* next_line() yields Ok(None) or Err: the loop and the task end
ReadEnd ==
    /\ proc = Running /\ pc = "read"
    /\ pc' = "done"
    /\ line' = NoLine
    /\ UNCHANGED <<input, log, stdout, id, request, result, response, calls, returns,
                   notifs, sig, cleaned, proc>>

\* writeln!(logging_file, "{}", line)
InputRecord(l, k) == [src |-> "in", text |-> l, at |-> k]

\* the input log write moved inside the is_empty check
LogInputSkipEmpty ==
    /\ proc = Running /\ pc = "log_in"
    /\ log' = IF line.form = "empty" THEN log ELSE Append(log, InputRecord(line, At))
    /\ pc' = "classify"
    /\ UNCHANGED <<input, line, stdout, id, request, result, response, calls, returns,
                   notifs, sig, cleaned, proc>>

LogInput ==
    /\ proc = Running /\ pc = "log_in"
    /\ log' = Append(log, InputRecord(line, At))
    /\ pc' = "classify"
    /\ UNCHANGED <<input, line, stdout, id, request, result, response, calls, returns,
                   notifs, sig, cleaned, proc>>

\* notifications_initialized() / notifications_cancelled(cancel_params): the
\* call returns nothing to the loop; the model records that it was made
RunNotification(ns, h, k) == Append(ns, [handler |-> h, at |-> k])

\* the classifier keeping the id of an earlier request
ClassifyLineStaleId ==
    /\ proc = Running /\ pc = "classify"
    /\ LET c == Classify(line)
       IN  /\ pc' = c.next
           /\ notifs' = IF c.handler = "none" THEN notifs
                        ELSE RunNotification(notifs, c.handler, At)
           /\ id' = IF c.next # "call" THEN id
                    ELSE IF id # None THEN id ELSE c.id
           /\ request' = IF c.next = "call" THEN c.request ELSE NoRequest
    /\ UNCHANGED <<input, line, log, stdout, result, response, calls, returns, sig,
                   cleaned, proc>>

\* parse, classify, run a notification handler or build the effective request
ClassifyLine ==
    /\ proc = Running /\ pc = "classify"
    /\ LET c == Classify(line)
       IN  /\ pc' = c.next
           /\ notifs' = IF c.handler = "none" THEN notifs
                        ELSE RunNotification(notifs, c.handler, At)
           /\ id' = IF c.next = "call" THEN c.id ELSE None
           /\ request' = IF c.next = "call" THEN c.request ELSE NoRequest
    /\ UNCHANGED <<input, line, log, stdout, result, response, calls, returns, sig,
                   cleaned, proc>>

\* router.call(rpc_request): the lookup; an unknown method fails at once
RouterCall ==
    /\ proc = Running /\ pc = "call"
    /\ calls' = Append(calls, [method |-> request.method,
                               params |-> request.params, at |-> At])
    /\ IF request.method \in Registry
       THEN /\ pc' = "await"
            /\ result' = NoResult
            /\ returns' = returns
       ELSE /\ pc' = "match"
            /\ result' = Err(RouterError("MethodUnknown"))
            /\ returns' = Append(returns, [result |-> Err(RouterError("MethodUnknown")),
                                           at |-> At])
    /\ UNCHANGED <<input, line, log, stdout, id, request, response, notifs,
                   sig, cleaned, proc>>

\* the handler in flight returns
HandlerReturn ==
    /\ proc = Running /\ pc = "await"
    /\ \E r \in HandlerResults :
         /\ result' = r
         /\ returns' = Append(returns, [result |-> r, at |-> At])
    /\ pc' = "match"
    /\ UNCHANGED <<input, line, log, stdout, id, request, response, calls,
                   notifs, sig, cleaned, proc>>

\* the call's result unwrapped: a failed call panics the task
MatchCallUnwrap ==
    /\ proc = Running /\ pc = "match"
    /\ response' = IF result.t = "ok" THEN MatchResult(id, result) ELSE NoResponse
    /\ pc' = IF result.t # "ok" THEN "panicked"
             ELSE IF MatchResult(id, result) = NoResponse THEN "read" ELSE "log_out"
    /\ UNCHANGED <<input, line, log, stdout, id, request, result, calls, returns,
                   notifs, sig, cleaned, proc>>

\* the match on the call's result: build the response line, or none
MatchCall ==
    /\ proc = Running /\ pc = "match"
    /\ response' = MatchResult(id, result)
    /\ pc' = IF MatchResult(id, result) = NoResponse THEN "read" ELSE "log_out"
    /\ UNCHANGED <<input, line, log, stdout, id, request, result, calls, returns,
                   notifs, sig, cleaned, proc>>

\* writeln!(logging_file, "{}\n", response)
ResponseRecord(r, k) == [src |-> "out", text |-> r, at |-> k]

\* the response printed without having been written to the log
LogResponseForgotten ==
    /\ proc = Running /\ pc = "log_out"
    /\ log' = log
    /\ pc' = "println"
    /\ UNCHANGED <<input, line, stdout, id, request, result, response, calls, returns,
                   notifs, sig, cleaned, proc>>

\* the response record written ahead of the records already in the log
LogResponseAtStart ==
    /\ proc = Running /\ pc = "log_out"
    /\ log' = <<ResponseRecord(response, At)>> \o log
    /\ pc' = "println"
    /\ UNCHANGED <<input, line, stdout, id, request, result, response, calls, returns,
                   notifs, sig, cleaned, proc>>

LogResponse ==
    /\ proc = Running /\ pc = "log_out"
    /\ log' = Append(log, ResponseRecord(response, At))
    /\ pc' = "println"
    /\ UNCHANGED <<input, line, stdout, id, request, result, response, calls, returns,
                   notifs, sig, cleaned, proc>>

\* the response put in front of the earlier ones
StdoutPrepend(out, r, k) == <<[text |-> r, at |-> k]>> \o out

\* println!("{}", response)
StdoutAppend(out, r, k) == Append(out, [text |-> r, at |-> k])

PrintResponse ==
    /\ proc = Running /\ pc = "println"
    /\ stdout' = StdoutAppend(stdout, response, At)
    /\ pc' = "read"
    /\ UNCHANGED <<input, line, log, id, request, result, response, calls, returns,
                   notifs, sig, cleaned, proc>>

----------------------------------------------------------------------------
(* The signal task and main's select *)

\* shutdown.await completes: SIGINT or SIGTERM (Ctrl+C on Windows)
SignalReceived ==
    /\ proc = Running /\ sig = "listening"
    /\ sig' = "signalled"
    /\ UNCHANGED <<input, pc, line, log, stdout, id, request, result, response,
                   calls, returns, notifs, cleaned, proc>>

\* graceful_shutdown()
GracefulShutdown ==
    /\ proc = Running /\ sig = "signalled"
    /\ cleaned' = TRUE
    /\ sig' = "cleaned"
    /\ UNCHANGED <<input, pc, line, log, stdout, id, request, result, response,
                   calls, returns, notifs, proc>>

ExitStatus == 0

\* std::process::exit(0)
ProcessExit ==
    /\ proc = Running /\ sig = "cleaned"
    /\ proc' = Exited(ExitStatus, "signal")
    /\ UNCHANGED <<input, pc, line, log, stdout, id, request, result, response,
                   calls, returns, notifs, sig, cleaned>>

\* main joining both tasks instead of selecting the first to complete
MainReturnAfterBoth ==
    /\ proc = Running /\ pc \in {"done", "panicked"} /\ sig # "listening"
    /\ proc' = Exited(ExitStatus, "main")
    /\ UNCHANGED <<input, pc, line, log, stdout, id, request, result, response,
                   calls, returns, notifs, sig, cleaned>>

\* select!: rpc_handle completed (the loop ended or the task panicked); main returns
MainReturn ==
    /\ proc = Running /\ pc \in {"done", "panicked"}
    /\ proc' = Exited(ExitStatus, "main")
    /\ UNCHANGED <<input, pc, line, log, stdout, id, request, result, response,
                   calls, returns, notifs, sig, cleaned>>

Next ==
    \/ ReadLine
    \/ ReadEnd
    \/ LogInput
    \/ ClassifyLine
    \/ RouterCall
    \/ HandlerReturn
    \/ MatchCall
    \/ LogResponse
    \/ PrintResponse
    \/ SignalReceived
    \/ GracefulShutdown
    \/ ProcessExit
    \/ MainReturn

Spec == Init /\ [][Next]_vars

\* Scheduling: the runtime keeps running both spawned tasks and main.  A step
\* that only waits on the outside world is not forced: a line arriving
\* (ReadLine), a handler coming back (HandlerReturn), a signal (SignalReceived).
FairSpec ==
    /\ Spec
    /\ WF_vars(ReadEnd)
    /\ WF_vars(LogInput)
    /\ WF_vars(ClassifyLine)
    /\ WF_vars(RouterCall)
    /\ WF_vars(MatchCall)
    /\ WF_vars(LogResponse)
    /\ WF_vars(PrintResponse)
    /\ WF_vars(GracefulShutdown)
    /\ WF_vars(ProcessExit)
    /\ WF_vars(MainReturn)

TypeOK ==
    /\ pc \in {"read", "log_in", "classify", "call", "await", "match",
               "log_out", "println", "done", "panicked"}
    /\ sig \in {"listening", "signalled", "cleaned"}
    /\ Len(input) <= MaxLines
    /\ cleaned \in BOOLEAN

----------------------------------------------------------------------------
(* Reading the history: what was written, called and returned for line k *)

Processed(k) == k < Len(input) \/ (k = Len(input) /\ pc \in {"read", "done"})
OutAt(k) == {j \in DOMAIN stdout : stdout[j].at = k}
LogOutAt(k) == {j \in DOMAIN log : log[j].src = "out" /\ log[j].at = k}
LogInAt(k) == {j \in DOMAIN log : log[j].src = "in" /\ log[j].at = k}
CallsAt(k) == {j \in DOMAIN calls : calls[j].at = k}
ReturnsAt(k) == {j \in DOMAIN returns : returns[j].at = k}
NotifsAt(k) == {j \in DOMAIN notifs : notifs[j].at = k}

\* the line spells a JSON object with an id and a string method
IsRequestLine(l) ==
    /\ l.form = "json"
    /\ l.value.t = "object"
    /\ {"id", "method"} \subseteq l.value.keys
    /\ l.value.method.t = "string"

\* the line spells a tools/call request whose params hold a name
IsToolCallLine(l) ==
    /\ IsRequestLine(l)
    /\ l.value.method.s = "tools/call"
    /\ "params" \in l.value.keys
    /\ l.value.params.t = "object"
    /\ "name" \in l.value.params.keys

\* the request {id, method: X, params: A} a tools/call line {name: X, arguments: A} stands for
DirectOf(l) ==
    JsonLine(Obj(l.value.id, JString(l.value.params.name),
                 IF "arguments" \in l.value.params.keys
                 THEN l.value.params.arguments ELSE None))

----------------------------------------------------------------------------
\* C1: every line read from stdin, whatever it holds, has exactly one input
\* record in the log, holding the line verbatim, and that record is in the log
\* before the line is classified, dispatched or answered (the only line without
\* its record is the one just read, whose log write is the task's next step).
C1_InputLoggedOnce ==
    \A k \in 1..Len(input) :
        /\ Cardinality(LogInAt(k)) = IF k = Len(input) /\ pc = "log_in" THEN 0 ELSE 1
        /\ \A j \in LogInAt(k) : log[j].text = input[k]
        /\ \A j \in LogOutAt(k) : \E i \in LogInAt(k) : i < j
        /\ (CallsAt(k) # {} \/ NotifsAt(k) # {} \/ OutAt(k) # {}) => LogInAt(k) # {}

\* an empty line and an answered request have both been logged
C1_Witness ==
    /\ Len(input) = 2
    /\ input[1] = EmptyLine
    /\ LogInAt(1) # {}
    /\ OutAt(2) # {}
    /\ pc = "read"

\* C2: a request whose handler succeeds with a non-null v gets exactly one
\* stdout line {jsonrpc: "2.0", id, result: v} with its own id, also recorded in
\* the log; with a null v nothing is printed and no response record is logged.
C2_SuccessResponse ==
    \A r \in DOMAIN returns :
        LET k == returns[r].at
            res == returns[r].result
        IN  res.t = "ok" =>
              IF res.value # [t |-> "null"]
              THEN /\ Cardinality(OutAt(k)) <= 1
                   /\ Cardinality(LogOutAt(k)) <= 1
                   /\ Processed(k) =>
                        /\ Cardinality(OutAt(k)) = 1
                        /\ Cardinality(LogOutAt(k)) = 1
                   /\ \A j \in OutAt(k) :
                        stdout[j].text =
                          [jsonrpc |-> "2.0", id |-> input[k].value.id, result |-> res.value]
                   /\ \A j \in LogOutAt(k) :
                        log[j].text =
                          [jsonrpc |-> "2.0", id |-> input[k].value.id, result |-> res.value]
              ELSE OutAt(k) = {} /\ LogOutAt(k) = {}

\* one request suppressed on a null result, the next answered with its value
C2_Witness ==
    /\ Len(returns) = 2
    /\ returns[1].result = Ok(JNull)
    /\ returns[2].result = Ok(ValueA)
    /\ OutAt(1) = {} /\ OutAt(2) # {}
    /\ pc = "read"

\* what the loop does with line k agrees with what it does with the request d
\* when the handler comes back with the same result
SameOutcomeAs(k, d) ==
    /\ CallsAt(k) # {} =>
         /\ d.next = "call"
         /\ \A c \in CallsAt(k) :
              /\ calls[c].method = d.request.method
              /\ calls[c].params = d.request.params
         /\ \A r \in ReturnsAt(k) :
              LET expected == MatchResult(d.id, returns[r].result)
              IN  /\ \A j \in OutAt(k) : stdout[j].text = expected
                  /\ Processed(k) => (OutAt(k) = {} <=> expected = NoResponse)
    /\ (Processed(k) /\ d.next = "call") => CallsAt(k) # {}

\* C3 as stated: a tools/call request {name: X, arguments: A} has the same
\* outcome as the request {method: X, params: A} with the same id, for every X.
C3_ToolCallAsDirect ==
    \A k \in 1..Len(input) :
        IsToolCallLine(input[k]) => SameOutcomeAs(k, Classify(DirectOf(input[k])))

\* C3 amended: the same, for every name X other than the reserved "tools/call".
C3_ToolCallAsDirectUnreserved ==
    \A k \in 1..Len(input) :
        (IsToolCallLine(input[k]) /\ input[k].value.params.name # "tools/call")
            => SameOutcomeAs(k, Classify(DirectOf(input[k])))

\* a tools/call request for the registered toolX has been answered
C3_Witness ==
    \E k \in 1..Len(input) :
        /\ IsToolCallLine(input[k])
        /\ input[k].value.params.name = "toolX"
        /\ "arguments" \in input[k].value.params.keys
        /\ Processed(k)
        /\ OutAt(k) # {}

\* the line is a valid request whose effective method is not registered
IsUnknownMethodLine(l) ==
    \/ IsToolCallLine(l) /\ l.value.params.name \notin Registry
    \/ IsRequestLine(l) /\ l.value.method.s \notin Registry \cup {"tools/call"}

\* C4: a valid request whose effective method is not registered gets exactly
\* one error line with its own id, code -1 and a message that embeds the
\* router error's description, and never a success response.
C4_UnknownMethodError ==
    \A k \in 1..Len(input) :
        IsUnknownMethodLine(input[k]) =>
            /\ Cardinality(OutAt(k)) <= 1
            /\ Processed(k) => Cardinality(OutAt(k)) = 1
            /\ \A j \in OutAt(k) :
                 stdout[j].text =
                   [jsonrpc |-> "2.0", id |-> input[k].value.id,
                    error |-> [code |-> -1,
                               message |-> <<"Invalid json-rpc call, error: ",
                                             "MethodUnknown">>]]

\* an unknown method named directly and one named through tools/call, both answered
C4_Witness ==
    /\ Len(input) = 2
    /\ IsUnknownMethodLine(input[1]) /\ ~IsToolCallLine(input[1])
    /\ IsUnknownMethodLine(input[2]) /\ IsToolCallLine(input[2])
    /\ OutAt(1) # {} /\ OutAt(2) # {}

\* C5: a handler error carrying a JSON payload e is answered with
\* {jsonrpc: "2.0", id, error: e}: the payload itself, not the code -1 envelope.
C5_HandlerErrorVerbatim ==
    \A r \in DOMAIN returns :
        LET k == returns[r].at
            res == returns[r].result
        IN  (res.t = "err" /\ res.error.kind = "Handler" /\ res.error.isValue) =>
              /\ Cardinality(OutAt(k)) <= 1
              /\ Processed(k) => Cardinality(OutAt(k)) = 1
              /\ \A j \in OutAt(k) :
                   stdout[j].text =
                     [jsonrpc |-> "2.0", id |-> input[k].value.id,
                      error |-> res.error.value]

\* a handler error with a payload has been answered
C5_Witness ==
    \E r \in DOMAIN returns :
        /\ returns[r].result = Err(HandlerError(TRUE, ErrorE))
        /\ Processed(returns[r].at)
        /\ OutAt(returns[r].at) # {}

\* C6 as stated: every request whose router call fails, whatever the failure,
\* gets exactly one error line carrying its id; none is dropped without a line.
C6_FailedCallAnswered ==
    \A r \in DOMAIN returns :
        LET k == returns[r].at
        IN  (returns[r].result.t = "err" /\ Processed(k)) =>
              /\ Cardinality(OutAt(k)) = 1
              /\ \A j \in OutAt(k) :
                   /\ "error" \in DOMAIN stdout[j].text
                   /\ stdout[j].text.id = input[k].value.id

\* C7: the lines on stdout are in the order in which the requests they answer
\* were read from stdin.
C7_ResponsesInOrder ==
    \A i, j \in DOMAIN stdout : i < j => stdout[i].at < stdout[j].at

\* two requests have been answered
C7_Witness ==
    /\ Len(stdout) = 2
    /\ stdout[1].text.id = input[1].value.id
    /\ stdout[2].text.id = input[2].value.id

\* the line the loop owes a request with id i whose call came back with res
EnvelopeOf(i, res) ==
    IF res.t = "ok"
    THEN [jsonrpc |-> "2.0", id |-> i, result |-> res.value]
    ELSE IF res.error.kind = "Handler"
    THEN [jsonrpc |-> "2.0", id |-> i, error |-> res.error.value]
    ELSE [jsonrpc |-> "2.0", id |-> i,
          error |-> [code |-> -1,
                     message |-> <<"Invalid json-rpc call, error: ", res.error.kind>>]]

\* C8: every stdout line carries the id of the request line being processed
\* when it was written and is made of that id and that request's own call
\* result only; a request line yields at most one stdout line.
C8_ResponseCorrelated ==
    /\ \A j \in DOMAIN stdout :
         LET k == stdout[j].at
         IN  /\ IsRequestLine(input[k])
             /\ stdout[j].text.id = input[k].value.id
             /\ \E r \in ReturnsAt(k) :
                  stdout[j].text = EnvelopeOf(input[k].value.id, returns[r].result)
    /\ \A k \in 1..Len(input) : Cardinality(OutAt(k)) <= 1

\* the same method and params sent twice with different ids, both answered
C8_Witness ==
    /\ input = <<RequestLine(1, "ping", None), RequestLine(2, "ping", None)>>
    /\ Len(stdout) = 2
    /\ stdout[1].text.id = JId(1)
    /\ stdout[2].text.id = JId(2)
    /\ returns[1].result = returns[2].result

\* a JSON object without an id, leaving out the cancellation whose params are
\* absent or do not decode
IsQuietNotification(l) ==
    /\ l.form = "json"
    /\ l.value.t = "object"
    /\ "id" \notin l.value.keys
    /\ ("method" \in l.value.keys /\ l.value.method = JString("notifications/cancelled"))
         => ("params" \in l.value.keys /\ "requestId" \in l.value.params.keys)

\* C9: an object without an id is never answered: nothing on stdout, no
\* response record in the log, no router lookup, and the loop is back at
\* reading the next line.
C9_NotificationUnanswered ==
    \A k \in 1..Len(input) :
        IsQuietNotification(input[k]) =>
            /\ OutAt(k) = {}
            /\ LogOutAt(k) = {}
            /\ CallsAt(k) = {}
            /\ k = Len(input) => pc \in {"log_in", "classify", "read", "done"}

\* a well-formed cancellation went unanswered and the next line was answered
C9_Witness ==
    /\ Len(input) = 2
    /\ input[1] = JsonLine(Obj(None, JString("notifications/cancelled"), CancelParams(1)))
    /\ NotifsAt(1) # {}
    /\ OutAt(2) # {}

\* a line that is not JSON, or is JSON but neither a request nor an object
\* without an id
IsDroppedLine(l) ==
    \/ l.form \in {"empty", "notjson"}
    \/ /\ l.form = "json"
       /\ ~IsRequestLine(l)
       /\ ~(l.value.t = "object" /\ "id" \notin l.value.keys)

\* C10: such a line is dropped silently: nothing on stdout, nothing in the log
\* but its input record, no handler, no abort of the task, and the loop is back
\* at reading the next line.
C10_MalformedDropped ==
    \A k \in 1..Len(input) :
        IsDroppedLine(input[k]) =>
            /\ OutAt(k) = {}
            /\ {j \in DOMAIN log : log[j].at = k} = LogInAt(k)
            /\ CallsAt(k) = {}
            /\ NotifsAt(k) = {}
            /\ k = Len(input) => pc \in {"log_in", "classify", "read", "done"}

\* a line that is not JSON was dropped and the next line was answered
C10_Witness ==
    /\ Len(input) = 2
    /\ input[1] = NotJson
    /\ Cardinality(LogInAt(1)) = 1
    /\ OutAt(2) # {}

\* C11: the log is an ordered transcript: records are in the order of the
\* lines they belong to, line k's input record comes before line k's response
\* record, which comes before line k+1's input record, and no response record
\* is in the log without its line's input record ahead of it.
C11_LogTranscript ==
    /\ \A i, j \in DOMAIN log :
         i < j =>
           \/ log[i].at < log[j].at
           \/ log[i].at = log[j].at /\ log[i].src = "in" /\ log[j].src = "out"
    /\ \A j \in DOMAIN log :
         log[j].src = "out" =>
           \E i \in 1..(j - 1) :
             /\ log[i].src = "in"
             /\ log[i].at = log[j].at
             /\ log[i].text = input[log[j].at]

\* two answered requests: input, response, input, response
C11_Witness ==
    /\ Len(log) = 4
    /\ log[1].src = "in" /\ log[2].src = "out"
    /\ log[3].src = "in" /\ log[4].src = "out"
    /\ log[2].at = 1 /\ log[4].at = 2

\* C12 as stated: once a signal has been received in a running server, the
\* process exits with cleanup done and status 0, whatever the message loop does.
C12_SignalCleanExit ==
    (proc.st = "exited" /\ sig # "listening") => (cleaned /\ proc.code = 0)

\* C13: once stdin is at end-of-file and every line read has been processed,
\* the loop completes and the process terminates with status 0, also when no
\* signal ever arrives.
C13_EofTerminates ==
    (pc = "done" \/ (pc = "read" /\ Len(input) = MaxLines))
        ~> (proc.st = "exited" /\ proc.code = 0)

\* the loop ended at end-of-file and main returned with the signal task still listening
C13_Witness ==
    /\ pc = "done"
    /\ Len(input) = MaxLines
    /\ sig = "listening"
    /\ proc = Exited(0, "main")

\* C14 as stated: the process never exits, on a signal or at end-of-file,
\* without the cleanup step having run.
C14_CleanupBeforeExit ==
    proc.st = "exited" => cleaned

\* C15 as stated: for a tools/call request whose params decode, the method
\* name the registry is asked for is never "tools/call", whatever the name.
C15_NeverReservedLookup ==
    \A c \in DOMAIN calls :
        IsToolCallLine(input[calls[c].at]) => calls[c].method # "tools/call"

\* C15 amended: for a tools/call request whose params decode with a name
\* other than "tools/call", the registry is asked for that name, not for
\* "tools/call".
C15_RewrittenLookup ==
    \A k \in 1..Len(input) :
        (IsToolCallLine(input[k]) /\ input[k].value.params.name # "tools/call") =>
            /\ \A c \in CallsAt(k) :
                 /\ calls[c].method = input[k].value.params.name
                 /\ calls[c].method # "tools/call"
            /\ (k < Len(input) \/ pc \notin {"log_in", "classify", "call"})
                 => CallsAt(k) # {}

\* the registry has been asked for the name inside a tools/call request
C15_Witness ==
    \E c \in DOMAIN calls :
        /\ IsToolCallLine(input[calls[c].at])
        /\ calls[c].method = "nosuch"
        /\ pc = "match"

\* line k has been logged, classified, dispatched if it is a request, and its
\* response written or suppressed
LineComplete(k) ==
    /\ Cardinality(LogInAt(k)) = 1
    /\ Classify(input[k]).next # "panicked"
    /\ Classify(input[k]).next = "call" <=> CallsAt(k) # {}
    /\ Cardinality(CallsAt(k)) = Cardinality(ReturnsAt(k))
    /\ Cardinality(LogOutAt(k)) = Cardinality(OutAt(k))
    /\ \A r \in ReturnsAt(k) :
         MatchResult(input[k].value.id, returns[r].result) # NoResponse => OutAt(k) # {}

\* at most one call in flight, made for the last line read, which is unanswered
OneInFlight ==
    /\ Len(calls) - Len(returns) \in {0, 1}
    /\ Len(calls) = Len(returns) + 1 <=> pc = "await"
    /\ pc = "await" =>
         /\ calls[Len(calls)].at = Len(input)
         /\ OutAt(Len(input)) = {}
         /\ LogOutAt(Len(input)) = {}

\* C16: the loop is strictly sequential: every line before the last one read is
\* complete, at most one handler call is in flight, and as long as a handler
\* has not returned nothing is read, logged or printed.
C16_StrictlySequential ==
    /\ [](\A k \in 1..(Len(input) - 1) : LineComplete(k))
    /\ []OneInFlight
    /\ [][(pc = "await" /\ pc' = "await") => UNCHANGED <<input, log, stdout>>]_vars
    /\ [][input' # input => (pc = "read" /\ \A k \in 1..Len(input) : LineComplete(k))]_vars

\* the second line's handler is in flight after the first line was answered
C16_Witness ==
    /\ pc = "await"
    /\ Len(input) = 2
    /\ OutAt(1) # {}
    /\ Len(calls) = 2 /\ Len(returns) = 1

\* line k failed on its own: it is not JSON, or its router call came back
\* with an error (unknown method, handler error, other routing error)
IsLocalError(k) ==
    \/ input[k].form = "notjson"
    \/ \E r \in ReturnsAt(k) : returns[r].result.t = "err"

\* C17: a line that fails on its own never aborts the loop: the task does not
\* panic on it, and the line read after it is logged,
\* dispatched and answered as that line alone determines.
C17_LocalErrorContained ==
    \A k \in 1..Len(input) :
        IsLocalError(k) =>
            /\ k = Len(input) => pc # "panicked"
            /\ k < Len(input) =>
                 /\ (k + 1 < Len(input) \/ pc # "log_in") =>
                      \E j \in LogInAt(k + 1) : log[j].text = input[k + 1]
                 /\ SameOutcomeAs(k + 1, Classify(input[k + 1]))

\* a handler error on the first line, the second line answered with a result
C17_Witness ==
    /\ Len(input) = 2
    /\ Len(returns) = 2
    /\ returns[1].at = 1 /\ returns[1].result = Err(HandlerError(TRUE, ErrorE))
    /\ returns[2].at = 2 /\ returns[2].result = Ok(ValueA)
    /\ Len(stdout) = 2

\* a tools/call request, or a notifications/cancelled notification, whose
\* params are absent or do not decode
IsAbortLine(l) ==
    /\ l.form = "json"
    /\ l.value.t = "object"
    /\ "method" \in l.value.keys
    /\ \/ /\ "id" \in l.value.keys
          /\ l.value.method = JString("tools/call")
          /\ ~("params" \in l.value.keys /\ "name" \in l.value.params.keys)
       \/ /\ "id" \notin l.value.keys
          /\ l.value.method = JString("notifications/cancelled")
          /\ ~("params" \in l.value.keys /\ "requestId" \in l.value.params.keys)

\* such a line is the last one read, is logged as input and gets nothing else
AbortLineEndsLoop ==
    \A k \in 1..Len(input) :
        IsAbortLine(input[k]) =>
            /\ k = Len(input)
            /\ pc \in {"log_in", "classify", "panicked"}
            /\ Cardinality(LogInAt(k)) = IF pc = "log_in" THEN 0 ELSE 1
            /\ {j \in DOMAIN log : log[j].at = k} = LogInAt(k)
            /\ OutAt(k) = {}
            /\ CallsAt(k) = {}
            /\ NotifsAt(k) = {}

\* C18: a tools/call request or a cancellation whose params are absent or do
\* not decode aborts the message task: the line is logged as input, nothing
\* is written for it, no later line is read, and the process terminates.
C18_BadParamsAbort ==
    /\ []AbortLineEndsLoop
    /\ (\E k \in 1..Len(input) : IsAbortLine(input[k])) ~> (proc.st = "exited")

\* the task panicked on a tools/call request without params and the process ended
C18_Witness ==
    /\ input = <<RequestLine(1, "tools/call", None)>>
    /\ pc = "panicked"
    /\ Len(log) = 1
    /\ stdout = <<>>
    /\ proc.st = "exited"

\* a notifications/cancelled notification whose params decode
IsCancellation(l) ==
    /\ l.form = "json"
    /\ l.value.t = "object"
    /\ "id" \notin l.value.keys
    /\ "method" \in l.value.keys
    /\ l.value.method = JString("notifications/cancelled")
    /\ "params" \in l.value.keys
    /\ "requestId" \in l.value.params.keys

KeepLine(l) == ~IsCancellation(l)
WithoutCancellations(ls) == SelectSeq(ls, KeepLine)

\* what the loop prints for the lines ls when its router calls come back, in
\* order, with the results rs
RECURSIVE LoopOutput(_, _)
LoopOutput(ls, rs) ==
    IF ls = <<>> THEN <<>>
    ELSE LET c == Classify(Head(ls))
         IN  IF c.next = "panicked" THEN <<>>
             ELSE IF c.next = "read" THEN LoopOutput(Tail(ls), rs)
             ELSE IF rs = <<>> THEN <<>>
             ELSE LET out == MatchResult(c.id, Head(rs))
                  IN  (IF out = NoResponse THEN <<>> ELSE <<out>>)
                          \o LoopOutput(Tail(ls), Tail(rs))

\* between two lines, stdout is what the loop prints for the lines read with
\* the cancellations taken out and the same call results; a cancellation is
\* followed by the next read and leaves no call, return or output of its own
CancellationInert ==
    /\ pc \in {"read", "done"} =>
         [j \in 1..Len(stdout) |-> stdout[j].text] =
             LoopOutput(WithoutCancellations(input),
                        [j \in 1..Len(returns) |-> returns[j].result])
    /\ \A k \in 1..Len(input) :
         IsCancellation(input[k]) =>
             /\ OutAt(k) = {} /\ CallsAt(k) = {} /\ ReturnsAt(k) = {}
             /\ k = Len(input) => pc \in {"log_in", "classify", "read", "done"}
             /\ Processed(k) => Cardinality(NotifsAt(k)) = 1

\* C19: a well-formed cancellation is advisory only: taking the cancellations
\* out of the input changes nothing on stdout, and a cancellation is handled
\* only while no handler call is in flight.
C19_CancellationAdvisory ==
    /\ []CancellationInert
    /\ [][notifs' # notifs => (Len(calls) = Len(returns) /\ pc = "classify")]_vars

\* a cancellation naming request 1 was handled after request 1 was answered
C19_Witness ==
    /\ Len(input) = 2
    /\ IsRequestLine(input[1]) /\ input[1].value.id = JId(1)
    /\ IsCancellation(input[2])
    /\ Len(stdout) = 1
    /\ NotifsAt(2) # {}
    /\ pc = "read"

IsResponseRecord(r) == r.src = "out"

\* C20: a response is in the log before it is on stdout: in every state, also
\* after a signal-triggered exit, the lines on stdout are a prefix of the
\* response records of the log, which hold at most one record more.
C20_StdoutPrefixOfLog ==
    LET outs == SelectSeq(log, IsResponseRecord)
    IN  /\ Len(stdout) <= Len(outs)
        /\ Len(outs) <= Len(stdout) + 1
        /\ Len(outs) = Len(stdout) + 1 <=> pc = "println"
        /\ \A j \in DOMAIN stdout :
             /\ stdout[j].text = outs[j].text
             /\ stdout[j].at = outs[j].at

\* the signal task exited the process between the log write and the println
C20_Witness ==
    /\ proc = Exited(0, "signal")
    /\ pc = "println"
    /\ Len(stdout) = 1
    /\ Len(SelectSeq(log, IsResponseRecord)) = 2

====
